---- MODULE Spec2Model ----
(***************************************************************************)
(* Alerting core of the monitoring dashboard (backend/python/dashboard.py): *)
(* the background thread check_alerts, the shared list active_alerts with  *)
(* its lock alerts_lock, the shared dict ALERT_THRESHOLDS, and the Flask   *)
(* handlers api_alerts and api_alerts_config.                              *)
(*                                                                         *)
(* JSON values are records [tag, n]: tag "number" (n the number), "string" *)
(* (n the rank of the string in Python's string order) or "null".          *)
(***************************************************************************)
EXTENDS Integers, Sequences, FiniteSets, TLC

\* ---------------------------------------------------------------- bounds
\* Hosts in one fetched snapshot map.
MaxHosts == 1
\* Concurrent api_alerts requests.
NumReaders == 2
\* Concurrent api_alerts_config requests.
NumClients == 2

\* ------------------------------------------------------------ JSON values
Num(n) == [tag |-> "number", n |-> n]
Str(n) == [tag |-> "string", n |-> n]
Null == [tag |-> "null", n |-> 0]

\* Python's `a > b` is defined between two numbers and between two strings;
\* any other pairing of these JSON values raises TypeError.
Comparable(a, b) == a.tag = b.tag /\ a.tag \in {"number", "string"}
Gt(a, b) == a.n > b.n

\* ------------------------------------------------------------- constants
CpuDefault == 80
MemoryDefault == 85
DiskDefault == 90

KindsDiskFirst == <<"disk", "memory", "cpu">>
\* The three kinds in the order check_alerts tests them: the key of
\* ALERT_THRESHOLDS, the key of a host's metrics, the 'type' of the alert.
Kinds == <<"cpu", "memory", "disk">>
MetricKey == [cpu |-> "cpu_usage", memory |-> "memory_usage", disk |-> "disk_usage"]
AlertTypeCopied == [cpu |-> "CPU", memory |-> "CPU", disk |-> "CPU"]
AlertType == [cpu |-> "CPU", memory |-> "Memory", disk |-> "Disk"]
KindSet == {Kinds[i] : i \in 1..Len(Kinds)}

DefaultThresholds ==
    [cpu |-> Num(CpuDefault), memory |-> Num(MemoryDefault), disk |-> Num(DiskDefault)]

\* ---------------------------------------------------------------- inputs
\* Readings a host entry of the metrics source may carry: all above 100,
\* all equal to the default thresholds, one below 0, a missing key, a null.
\* The i-th entry of a snapshot map has the hostname HostName(i).
HostMetrics ==
    { [cpu_usage |-> Num(120), memory_usage |-> Num(120), disk_usage |-> Num(120)],
      [cpu_usage |-> Num(80),  memory_usage |-> Num(85),  disk_usage |-> Num(90)],
      [cpu_usage |-> Num(-5),  memory_usage |-> Num(90),  disk_usage |-> Num(95)],
      [cpu_usage |-> Num(120), disk_usage |-> Num(120)],
      [cpu_usage |-> Num(120), memory_usage |-> Num(50),  disk_usage |-> Null] }

HostName(i) == <<"host", i>>

Snapshots ==
    UNION { { [i \in 1..n |-> [hostname |-> HostName(i), metrics |-> m[i]]] :
                m \in [1..n -> HostMetrics] } : n \in 0..MaxHosts }

\* response.json(): a JSON object (items: its entries in order) or any other
\* JSON value, which has no .items().
JsonObject(items) == [object |-> TRUE, items |-> items]
NotAnObject == [object |-> FALSE, items |-> <<>>]
NoBody == JsonObject(<<>>)
Bodies == {JsonObject(s) : s \in Snapshots} \cup {NotAnObject}

\* request.json of a POST that is a mapping: no key, one kind, several
\* kinds, a number below 0, a value that is no number, a key that is no kind.
Payloads ==
    { [k \in {} |-> Null],
      [cpu |-> Num(100)],
      [memory |-> Num(100), disk |-> Num(100)],
      [cpu |-> Num(-1)],
      [disk |-> Str(1)],
      [network |-> Num(100)] }

\* The payloads that set numbers for kinds check_alerts reads: the updates
\* Spec interleaves with the poller.  (SpecConfig posts every payload.)
KindPayloads ==
    {new \in Payloads :
        DOMAIN new \subseteq KindSet /\ \A k \in DOMAIN new : new[k].tag = "number"}

Readers == 1..NumReaders
Clients == 1..NumClients

\* ----------------------------------------------------------------- state
VARIABLES
    ALERT_THRESHOLDS,  \* the shared threshold dict
    active_alerts,     \* the shared alert list
    alerts_lock,       \* "free", "poller" or "reader"
    pc,                \* where check_alerts is
    latest_metrics,    \* check_alerts' local: the parsed body
    host_idx,          \* position of the for loop in latest_metrics.items()
    kind_idx,          \* which of the three ifs of the loop body is next
    outcome,           \* how the last finished cycle ended
    rpc,               \* where each api_alerts request is
    cpc,               \* where each api_alerts_config request is
    new_thresholds,    \* api_alerts_config's local: request.json
    response,          \* what api_alerts_config last returned to each client,
                       \* dropped when ALERT_THRESHOLDS is updated after it
    posted,            \* history: per key, the value the latest POST naming
                       \* it sent (the default before any)
    pre_alerts,        \* history: active_alerts when the cycle started
    cfg_dirty,         \* history: ALERT_THRESHOLDS updated during the cycle
    complete,          \* history: active_alerts is [] as created or the
                       \* list a cycle that ran to its end left
    latest_get,        \* api_latest's local: the outcome of its requests.get
    latest_response,   \* what api_latest last returned
    last_fetched,      \* history: the body check_alerts last fetched
    reads,             \* history: the kinds whose threshold the cycle has
                       \* read, each with the value read
    versions           \* history: the values ALERT_THRESHOLDS has had since
                       \* the cycle started

pollerVars == <<pc, latest_metrics, host_idx, kind_idx, outcome>>
configVars == <<cpc, new_thresholds, response, posted>>
historyVars == <<pre_alerts, cfg_dirty, complete>>
latestVars == <<latest_get, latest_response, last_fetched>>
readVars == <<reads, versions>>
vars == <<ALERT_THRESHOLDS, active_alerts, alerts_lock, pollerVars, rpc,
          configVars, historyVars, latestVars, readVars>>

NoPayload == [k \in {} |-> Null]
NoResponse == [status |-> 0, thresholds |-> NoPayload]
NoGet == [state |-> "idle", body |-> NoBody]
NoLatest == [status |-> 0, body |-> NoBody]
NotFetched == [fetched |-> FALSE, body |-> NoBody]

Init ==
    /\ ALERT_THRESHOLDS = DefaultThresholds
    /\ active_alerts = <<>>
    /\ alerts_lock = "free"
    /\ pc = "fetch"
    /\ latest_metrics = NoBody
    /\ host_idx = 0
    /\ kind_idx = 0
    /\ outcome = "running"
    /\ rpc = [r \in Readers |-> "idle"]
    /\ cpc = [c \in Clients |-> "idle"]
    /\ new_thresholds = [c \in Clients |-> NoPayload]
    /\ response = [c \in Clients |-> NoResponse]
    /\ posted = DefaultThresholds
    /\ pre_alerts = <<>>
    /\ cfg_dirty = FALSE
    /\ complete = TRUE
    /\ latest_get = NoGet
    /\ latest_response = NoLatest
    /\ last_fetched = NotFetched
    /\ reads = {}
    /\ versions = {DefaultThresholds}

\* ---------------------------------------------------------- check_alerts
AfterExceptDies == "dead"
\* except Exception: print(...), then time.sleep(10) and the next iteration.
AfterExcept == "sleep"

\* The end of a cycle: check_alerts' locals are dead and the history of
\* the cycle is dropped.
EndCycle(how) ==
    /\ outcome' = how
    /\ latest_metrics' = NoBody
    /\ host_idx' = 0
    /\ kind_idx' = 0
    /\ pre_alerts' = <<>>
    /\ cfg_dirty' = FALSE

HeldOnRaise == alerts_lock
\* An exception that leaves the with block releases the lock; one raised
\* before the block was entered finds it as it is.
ReleasedOnRaise == IF alerts_lock = "poller" THEN "free" ELSE alerts_lock

NotReleased == alerts_lock
\* The with block ends: the lock is released.
Released == "free"

\* The exception handler: the error is printed and the loop goes on.
Abandon(how) ==
    /\ pc' = AfterExcept
    /\ alerts_lock' = ReleasedOnRaise
    /\ EndCycle(how)

\* time.sleep(10) returns and the loop starts the next cycle.
Slept ==
    /\ pc = "sleep"
    /\ pc' = "fetch"
    /\ outcome' = "running"
    /\ pre_alerts' = active_alerts
    /\ UNCHANGED <<ALERT_THRESHOLDS, active_alerts, alerts_lock, latest_metrics,
                   host_idx, kind_idx, rpc, configVars, cfg_dirty, complete>>
    /\ UNCHANGED latestVars

\* The step with the histories of api_latest and of the reads left alone.
Sleep ==
    /\ Slept
    /\ UNCHANGED readVars

\* requests.get raises (requests.Timeout, requests.ConnectionError).
FetchRaises ==
    /\ pc = "fetch"
    /\ Abandon("fetch_error")
    /\ UNCHANGED <<ALERT_THRESHOLDS, active_alerts, rpc, configVars, complete>>
    /\ UNCHANGED <<latestVars, readVars>>

FetchBadStatusClears ==
    /\ pc = "fetch"
    /\ pc' = "sleep"
    /\ EndCycle("bad_status")
    /\ active_alerts' = <<>>
    /\ UNCHANGED <<ALERT_THRESHOLDS, alerts_lock, rpc, configVars, complete>>
    /\ UNCHANGED <<latestVars, readVars>>
\* The response's status is not 200: the if is skipped, nothing is raised.
FetchBadStatus ==
    /\ pc = "fetch"
    /\ pc' = "sleep"
    /\ EndCycle("bad_status")
    /\ UNCHANGED <<ALERT_THRESHOLDS, active_alerts, alerts_lock, rpc, configVars,
                   complete>>
    /\ UNCHANGED <<latestVars, readVars>>

\* Status 200 and response.json() raises: the body is not JSON.
FetchBadBody ==
    /\ pc = "fetch"
    /\ Abandon("bad_body")
    /\ UNCHANGED <<ALERT_THRESHOLDS, active_alerts, rpc, configVars, complete>>
    /\ UNCHANGED <<latestVars, readVars>>

\* Status 200 and a JSON body: latest_metrics = response.json()
Fetched(body) ==
    /\ pc = "fetch"
    /\ pc' = "acquire"
    /\ latest_metrics' = body
    /\ UNCHANGED <<ALERT_THRESHOLDS, active_alerts, alerts_lock, host_idx, kind_idx,
                   outcome, rpc, configVars, historyVars>>

FetchOk(body) ==
    /\ Fetched(body)
    /\ UNCHANGED <<latestVars, readVars>>

\* The same step where the fetched body is remembered: latest_metrics stays
\* bound to it until the next assignment, through cycles that fail.
FetchOkKept(body) ==
    /\ Fetched(body)
    /\ last_fetched' = [fetched |-> TRUE, body |-> body]
    /\ UNCHANGED <<latest_get, latest_response, readVars>>

\* threading.Lock: acquiring blocks while another thread holds it.
LockAvailable == alerts_lock = "free"

NotAcquired == alerts_lock
\* The lock once check_alerts has entered the with block.
Acquired == "poller"

\* with alerts_lock: (enter)
PollerAcquire ==
    /\ pc = "acquire"
    /\ LockAvailable
    /\ alerts_lock' = Acquired
    /\ pc' = "clear"
    /\ UNCHANGED <<ALERT_THRESHOLDS, active_alerts, latest_metrics, host_idx,
                   kind_idx, outcome, rpc, configVars, historyVars>>
    /\ UNCHANGED <<latestVars, readVars>>

KeepAlerts(alerts) == alerts
\* active_alerts.clear()
Cleared(alerts) == <<>>

Clear ==
    /\ pc = "clear"
    /\ active_alerts' = Cleared(active_alerts)
    /\ complete' = FALSE
    /\ pc' = "next_host"
    /\ host_idx' = 1
    /\ UNCHANGED <<ALERT_THRESHOLDS, alerts_lock, latest_metrics, kind_idx, outcome,
                   rpc, configVars, pre_alerts, cfg_dirty>>
    /\ UNCHANGED <<latestVars, readVars>>

\* The for statement: latest_metrics.items() raises AttributeError when the
\* body is no JSON object; else the next entry is bound, or the loop and the
\* with block end and the lock is released.
NextHost ==
    /\ pc = "next_host"
    /\ IF ~latest_metrics.object
         THEN /\ Abandon("bad_shape")
              /\ UNCHANGED complete
         ELSE IF host_idx > Len(latest_metrics.items)
                THEN /\ pc' = "sleep"
                     /\ alerts_lock' = Released
                     /\ EndCycle("success")
                     /\ complete' = TRUE
                ELSE /\ pc' = "compare"
                     /\ kind_idx' = 1
                     /\ UNCHANGED <<alerts_lock, latest_metrics, host_idx, outcome,
                                    historyVars>>
    /\ UNCHANGED <<ALERT_THRESHOLDS, active_alerts, rpc, configVars>>
    /\ UNCHANGED <<latestVars, readVars>>

CurrentHost == latest_metrics.items[host_idx]
CurrentKind == Kinds[kind_idx]
CurrentKey == MetricKey[CurrentKind]

StaleThreshold(kind) == DefaultThresholds[kind]
\* ALERT_THRESHOLDS['cpu'] and the like: the dict is read when the
\* expression is evaluated.
Threshold(kind) == ALERT_THRESHOLDS[kind]

\* After the if of one kind: the if of the next kind, or the next entry.
Advance ==
    IF kind_idx < Len(Kinds)
      THEN /\ pc' = "compare"
           /\ kind_idx' = kind_idx + 1
           /\ UNCHANGED host_idx
      ELSE /\ pc' = "next_host"
           /\ host_idx' = host_idx + 1
           /\ kind_idx' = 0

GtOrEqual(a, b) == a.n >= b.n
\* metrics[key] > ALERT_THRESHOLDS[kind]
Exceeds(a, b) == Gt(a, b)

\* if metrics['cpu_usage'] > ALERT_THRESHOLDS['cpu']: KeyError when a key
\* is missing, TypeError when the two values cannot be compared.
Compared ==
    /\ pc = "compare"
    /\ IF \/ CurrentKey \notin DOMAIN CurrentHost.metrics
          \/ CurrentKind \notin DOMAIN ALERT_THRESHOLDS
          \/ ~Comparable(CurrentHost.metrics[CurrentKey], Threshold(CurrentKind))
         THEN Abandon("eval_error")
         ELSE /\ IF Exceeds(CurrentHost.metrics[CurrentKey], Threshold(CurrentKind))
                   THEN /\ pc' = "append"
                        /\ UNCHANGED <<host_idx, kind_idx>>
                   ELSE Advance
              /\ UNCHANGED <<alerts_lock, latest_metrics, outcome, pre_alerts,
                             cfg_dirty>>
    /\ UNCHANGED <<ALERT_THRESHOLDS, active_alerts, rpc, configVars, complete>>
    /\ UNCHANGED latestVars

Compare ==
    /\ Compared
    /\ UNCHANGED readVars

\* The dict literal of one alert ('timestamp' is the wall clock, left out).
Alert(hostname, kind, value, threshold) ==
    [hostname |-> hostname, type |-> AlertType[kind], value |-> value,
     threshold |-> threshold]

\* active_alerts.append({...}): metrics[key] and ALERT_THRESHOLDS[kind] are
\* read again while the dict literal is built.
Appended ==
    /\ pc = "append"
    /\ IF CurrentKind \notin DOMAIN ALERT_THRESHOLDS
         THEN /\ Abandon("eval_error")
              /\ UNCHANGED active_alerts
         ELSE /\ active_alerts' =
                   Append(active_alerts,
                          Alert(CurrentHost.hostname, CurrentKind,
                                CurrentHost.metrics[CurrentKey], Threshold(CurrentKind)))
              /\ Advance
              /\ UNCHANGED <<alerts_lock, latest_metrics, outcome, pre_alerts,
                             cfg_dirty>>
    /\ UNCHANGED <<ALERT_THRESHOLDS, rpc, configVars, complete>>
    /\ UNCHANGED latestVars

AppendAlert ==
    /\ Appended
    /\ UNCHANGED readVars

check_alerts ==
    \/ Sleep
    \/ FetchRaises
    \/ FetchBadStatus
    \/ FetchBadBody
    \/ \E body \in Bodies : FetchOk(body)
    \/ PollerAcquire
    \/ Clear
    \/ NextHost
    \/ Compare
    \/ AppendAlert

\* ------------------------------------------------------------ api_alerts
\* A GET /api/alerts: with alerts_lock: (enter).  A request that finds the
\* lock held blocks, which is this step not being enabled yet.
Acquires(r, from) ==
    /\ rpc[r] = from
    /\ LockAvailable
    /\ alerts_lock' = "reader"
    /\ rpc' = [rpc EXCEPT ![r] = "locked"]
    /\ UNCHANGED <<ALERT_THRESHOLDS, active_alerts, pollerVars, configVars,
                   historyVars>>
    /\ UNCHANGED <<latestVars, readVars>>

ApiAlertsAcquire(r) == Acquires(r, "idle")

\* The same request in two steps: it arrives and is at the with statement,
\* then it gets the lock.
ApiAlertsArrive(r) ==
    /\ rpc[r] = "idle"
    /\ rpc' = [rpc EXCEPT ![r] = "waiting"]
    /\ UNCHANGED <<ALERT_THRESHOLDS, active_alerts, alerts_lock, pollerVars,
                   configVars, historyVars, latestVars, readVars>>

ApiAlertsEnter(r) == Acquires(r, "waiting")

\* return jsonify(active_alerts): the list is serialised under the lock,
\* which the return releases.
ApiAlertsReturn(r) ==
    /\ rpc[r] = "locked"
    /\ alerts_lock' = "free"
    /\ rpc' = [rpc EXCEPT ![r] = "idle"]
    /\ UNCHANGED <<ALERT_THRESHOLDS, active_alerts, pollerVars, configVars,
                   historyVars>>
    /\ UNCHANGED <<latestVars, readVars>>

api_alerts ==
    \E r \in Readers :
        \/ ApiAlertsAcquire(r)
        \/ ApiAlertsReturn(r)

\* ----------------------------------------------------- api_alerts_config
\* History: what has been posted for each key once `new` is posted too.
Posted(old, new) ==
    [k \in DOMAIN old \cup DOMAIN new |-> IF k \in DOMAIN new THEN new[k] ELSE old[k]]

UpdateReplaces(thresholds, new) ==
    [k \in DOMAIN DefaultThresholds \cup DOMAIN new |->
        IF k \in DOMAIN new THEN new[k] ELSE DefaultThresholds[k]]
\* dict.update: the keys of the argument are set, the others are kept.
Update(thresholds, new) ==
    [k \in DOMAIN thresholds \cup DOMAIN new |->
        IF k \in DOMAIN new THEN new[k] ELSE thresholds[k]]

Ok(thresholds) == [status |-> 200, thresholds |-> thresholds]
ServerError == [status |-> 500, thresholds |-> NoPayload]

\* POST: new_thresholds = request.json; ALERT_THRESHOLDS.update(new_thresholds)
ConfigPostUpdate(c, new) ==
    /\ cpc[c] = "idle"
    /\ cpc' = [cpc EXCEPT ![c] = "updated"]
    /\ new_thresholds' = [new_thresholds EXCEPT ![c] = new]
    /\ ALERT_THRESHOLDS' = Update(ALERT_THRESHOLDS, new)
    /\ response' = [d \in Clients |-> NoResponse]
    /\ posted' = Posted(posted, new)
    /\ UNCHANGED <<active_alerts, alerts_lock, pollerVars, rpc, historyVars>>
    /\ UNCHANGED <<latestVars, readVars>>

ReturnsPayload(c) == Ok(new_thresholds[c])
\* return jsonify({'status': 'ok', 'thresholds': ALERT_THRESHOLDS})
PostResponse(c) == Ok(ALERT_THRESHOLDS)

ConfigPostReturn(c) ==
    /\ cpc[c] = "updated"
    /\ cpc' = [cpc EXCEPT ![c] = "idle"]
    /\ response' = [response EXCEPT ![c] = PostResponse(c)]
    /\ new_thresholds' = [new_thresholds EXCEPT ![c] = NoPayload]
    /\ UNCHANGED <<ALERT_THRESHOLDS, active_alerts, alerts_lock, pollerVars, rpc,
                   posted, historyVars>>
    /\ UNCHANGED <<latestVars, readVars>>

\* POST whose body is JSON but no mapping (a number, null): dict.update
\* raises TypeError and Flask answers 500.
ConfigPostRaises(c) ==
    /\ cpc[c] = "idle"
    /\ response' = [response EXCEPT ![c] = ServerError]
    /\ UNCHANGED <<ALERT_THRESHOLDS, active_alerts, alerts_lock, pollerVars, rpc,
                   cpc, new_thresholds, posted, historyVars>>
    /\ UNCHANGED <<latestVars, readVars>>

\* GET: return jsonify(ALERT_THRESHOLDS)
ConfigGet(c) ==
    /\ cpc[c] = "idle"
    /\ response' = [response EXCEPT ![c] = Ok(ALERT_THRESHOLDS)]
    /\ UNCHANGED <<ALERT_THRESHOLDS, active_alerts, alerts_lock, pollerVars, rpc,
                   cpc, new_thresholds, posted, historyVars>>
    /\ UNCHANGED <<latestVars, readVars>>

api_alerts_config ==
    \E c \in Clients :
        \/ \E new \in Payloads : ConfigPostUpdate(c, new)
        \/ ConfigPostReturn(c)
        \/ ConfigPostRaises(c)
        \/ ConfigGet(c)

\* The POST handler as one step, its response not kept: what check_alerts
\* and api_alerts can see of a configuration update.
Posts(new) ==
    /\ ALERT_THRESHOLDS' = Update(ALERT_THRESHOLDS, new)
    /\ posted' = Posted(posted, new)
    /\ cfg_dirty' = (pc # "sleep")
    /\ UNCHANGED <<active_alerts, alerts_lock, pollerVars, rpc, cpc, new_thresholds,
                   response, pre_alerts, complete>>
    /\ UNCHANGED latestVars

ConfigPost(new) ==
    /\ Posts(new)
    /\ UNCHANGED readVars

\* ------------------------------------------------------------ api_latest
\* response = requests.get(f"{GO_SERVER_URL}/latest", timeout=5); the
\* status of the response is not looked at.
ApiLatestGet(body) ==
    /\ latest_get.state = "idle"
    /\ latest_get' = [state |-> "got", body |-> body]
    /\ latest_response' = NoLatest
    /\ UNCHANGED <<ALERT_THRESHOLDS, active_alerts, alerts_lock, pollerVars, rpc,
                   configVars, historyVars, last_fetched, readVars>>

\* requests.get raises, or response.json() does: except Exception
ApiLatestRaises ==
    /\ latest_get.state = "idle"
    /\ latest_get' = [state |-> "raised", body |-> NoBody]
    /\ latest_response' = NoLatest
    /\ UNCHANGED <<ALERT_THRESHOLDS, active_alerts, alerts_lock, pollerVars, rpc,
                   configVars, historyVars, last_fetched, readVars>>

LatestOk(body) == [status |-> 200, body |-> body]
\* jsonify({'error': str(e)}), 500
LatestError == [status |-> 500, body |-> NoBody]

LatestFromPoller == LatestOk(last_fetched.body)
\* return jsonify(response.json()), or the error of the except branch
LatestResponse ==
    IF latest_get.state = "got" THEN LatestOk(latest_get.body) ELSE LatestError

ApiLatestReturn ==
    /\ latest_get.state # "idle"
    /\ latest_get' = NoGet
    /\ latest_response' = LatestResponse
    /\ UNCHANGED <<ALERT_THRESHOLDS, active_alerts, alerts_lock, pollerVars, rpc,
                   configVars, historyVars, last_fetched, readVars>>

api_latest ==
    \/ \E body \in Bodies : ApiLatestGet(body)
    \/ ApiLatestRaises
    \/ ApiLatestReturn

\* ------------------------------------------- reads of ALERT_THRESHOLDS
\* The steps that read or write the dict, with the history of what the
\* cycle read and of the values the dict had while the cycle ran.
Read(kind) == [kind |-> kind, value |-> Threshold(kind)]

\* The next cycle starts: nothing read yet, the dict as it is.
SleepTraced ==
    /\ Slept
    /\ reads' = {}
    /\ versions' = {ALERT_THRESHOLDS}

\* metrics[key] is evaluated first; ALERT_THRESHOLDS[kind] is read when
\* that has not raised.
CompareTraced ==
    /\ Compared
    /\ reads' = IF /\ CurrentKey \in DOMAIN CurrentHost.metrics
                   /\ CurrentKind \in DOMAIN ALERT_THRESHOLDS
                  THEN reads \cup {Read(CurrentKind)}
                  ELSE reads
    /\ UNCHANGED versions

AppendAlertTraced ==
    /\ Appended
    /\ reads' = IF CurrentKind \in DOMAIN ALERT_THRESHOLDS
                  THEN reads \cup {Read(CurrentKind)}
                  ELSE reads
    /\ UNCHANGED versions

ConfigPostTraced(new) ==
    /\ Posts(new)
    /\ versions' = versions \cup {ALERT_THRESHOLDS'}
    /\ UNCHANGED reads

\* -------------------------------------------------------- specifications
\* The poller, the api_alerts requests and configuration updates.
Next ==
    \/ check_alerts
    \/ api_alerts
    \/ \E new \in KindPayloads : ConfigPost(new)

Spec == Init /\ [][Next]_vars

\* The api_alerts_config requests, step by step, with their responses.
ConfigNext == api_alerts_config

SpecConfig == Init /\ [][ConfigNext]_vars

\* The poller, whose fetched body is remembered, and the api_latest
\* requests.
LatestNext ==
    \/ Sleep
    \/ FetchRaises
    \/ FetchBadStatus
    \/ FetchBadBody
    \/ \E body \in Bodies : FetchOkKept(body)
    \/ PollerAcquire
    \/ Clear
    \/ NextHost
    \/ Compare
    \/ AppendAlert
    \/ api_latest

SpecLatest == Init /\ [][LatestNext]_vars

\* The poller and configuration updates, with the history of the reads of
\* the dict.
ReadsNext ==
    \/ SleepTraced
    \/ FetchRaises
    \/ FetchBadStatus
    \/ FetchBadBody
    \/ \E body \in Bodies : FetchOk(body)
    \/ PollerAcquire
    \/ Clear
    \/ NextHost
    \/ CompareTraced
    \/ AppendAlertTraced
    \/ \E new \in KindPayloads : ConfigPostTraced(new)

SpecReads == Init /\ [][ReadsNext]_vars

\* Spec with the scheduling the threads get: a runnable thread runs, a
\* request being served returns, and the poller, which asks for the lock
\* again and again while readers take and release it, gets it in the end.
FairSpec ==
    /\ Spec
    /\ SF_vars(check_alerts)
    /\ \A r \in Readers : WF_vars(ApiAlertsReturn(r))

\* The poller and api_alerts requests that wait at the with statement,
\* under fair scheduling: a runnable thread runs, and a thread that asks
\* for the lock while it is released again and again gets it in the end.
WaitNext ==
    \/ check_alerts
    \/ \E r \in Readers :
          \/ ApiAlertsArrive(r)
          \/ ApiAlertsEnter(r)
          \/ ApiAlertsReturn(r)

FairWaitSpec ==
    /\ Init /\ [][WaitNext]_vars
    /\ SF_vars(check_alerts)
    /\ \A r \in Readers : SF_vars(ApiAlertsEnter(r)) /\ WF_vars(ApiAlertsReturn(r))

\* ------------------------------------------------------------ properties
\* The step that ends a cycle.
CycleEnds(how) == outcome = "running" /\ outcome' = how

\* The entries of the fetched snapshot map and the kinds, by position.
HostIndexes == 1..Len(latest_metrics.items)
KindIndexes == 1..Len(Kinds)
Reading(i, j) == latest_metrics.items[i].metrics[MetricKey[Kinds[j]]]

\* alerts holds an alert of host entry i for the j-th kind.
HasAlert(alerts, i, j) ==
    \E n \in 1..Len(alerts) :
        /\ alerts[n].hostname = latest_metrics.items[i].hostname
        /\ alerts[n].type = AlertType[Kinds[j]]

\* check_alerts is about to leave the for loop, all entries evaluated.
LoopDone ==
    /\ pc = "next_host"
    /\ latest_metrics.object
    /\ host_idx > Len(latest_metrics.items)

\* C1: a cycle whose fetch fails (requests.get raises, the status is not
\* 200, or the body is not JSON) ends with active_alerts, the list that
\* api_alerts returns, equal to what it was when the cycle started.
C1_FailedFetchKeepsAlerts ==
    [][(CycleEnds("fetch_error") \/ CycleEnds("bad_status") \/ CycleEnds("bad_body"))
         => active_alerts' = pre_alerts]_vars

\* C1 witness: a fetch has failed while the store held alerts.
C1_Witness ==
    /\ outcome \in {"fetch_error", "bad_status", "bad_body"}
    /\ active_alerts # <<>>

\* C2 (the claim as stated): a cycle whose evaluation raises (a missing
\* metrics key, values that cannot be compared) ends with active_alerts
\* equal to what it was when the cycle started.
C2_EvalRaiseKeepsAlerts ==
    [][CycleEnds("eval_error") => active_alerts' = pre_alerts]_vars

\* C3 (the claim as stated): whenever api_alerts serialises active_alerts,
\* the list is empty as the initial list is, or it is the whole result of
\* one cycle that ran to its end.
C3_ReadsSeeCompleteCycle ==
    \A r \in Readers : rpc[r] = "locked" => (complete \/ active_alerts = <<>>)

\* C4: when a cycle ends in success and ALERT_THRESHOLDS was not updated
\* during it, active_alerts holds an alert of host h and kind k exactly if
\* the reading of k for h is strictly greater than the threshold of k.
C4_AlertIffExceeds ==
    [][(CycleEnds("success") /\ ~cfg_dirty) =>
          \A i \in HostIndexes : \A j \in KindIndexes :
             HasAlert(active_alerts', i, j) <=>
                /\ MetricKey[Kinds[j]] \in DOMAIN latest_metrics.items[i].metrics
                /\ Comparable(Reading(i, j), ALERT_THRESHOLDS[Kinds[j]])
                /\ Reading(i, j).n > ALERT_THRESHOLDS[Kinds[j]].n]_vars

\* C4 witness: a cycle without an update is about to end in success with
\* a reading below 0 (no alert), one equal to its threshold (no alert), or
\* one above 100 (alert) evaluated.
C4_Witness ==
    /\ LoopDone
    /\ ~cfg_dirty
    /\ \E i \in HostIndexes :
          /\ Reading(i, 1).n < 0
          /\ ~HasAlert(active_alerts, i, 1)
          /\ HasAlert(active_alerts, i, 2)

\* C5: when a cycle ends in success, every alert in active_alerts comes
\* from an entry of that cycle's snapshot map (its hostname, the reading
\* of its kind), there is at most one per entry and kind, and an empty
\* snapshot map leaves the list empty.
C5_OnlyThisCyclesAlerts ==
    [][CycleEnds("success") =>
          /\ \A n \in 1..Len(active_alerts') :
                \E i \in HostIndexes : \E j \in KindIndexes :
                   /\ active_alerts'[n].hostname = latest_metrics.items[i].hostname
                   /\ active_alerts'[n].type = AlertType[Kinds[j]]
                   /\ active_alerts'[n].value = Reading(i, j)
          /\ Len(active_alerts') <= Len(latest_metrics.items) * Len(Kinds)
          /\ (latest_metrics.items = <<>> => active_alerts' = <<>>)]_vars

\* C5 witness: the store held alerts when the cycle started, the fetched
\* snapshot map is empty and the cycle is about to end in success.
C5_Witness ==
    /\ LoopDone
    /\ latest_metrics.items = <<>>
    /\ pre_alerts # <<>>
    /\ active_alerts = <<>>

\* The steps of a POST by client c: the update, the return.
Updates(c) == cpc[c] = "idle" /\ cpc'[c] = "updated"
Returns(c) == cpc[c] = "updated" /\ cpc'[c] = "idle"

\* C6: the update of a POST sets every key of its payload to the payload's
\* value and keeps every other key as it was; the POST returns the whole
\* threshold dict; and a response a client holds while no update has
\* followed it is the dict a GET returns then.
C6_UpdateMergesAndReturns ==
    [][\A c \in Clients :
         /\ Updates(c) =>
              /\ DOMAIN ALERT_THRESHOLDS' =
                    DOMAIN ALERT_THRESHOLDS \cup DOMAIN new_thresholds'[c]
              /\ \A k \in DOMAIN new_thresholds'[c] :
                    ALERT_THRESHOLDS'[k] = new_thresholds'[c][k]
              /\ \A k \in DOMAIN ALERT_THRESHOLDS \ DOMAIN new_thresholds'[c] :
                    ALERT_THRESHOLDS'[k] = ALERT_THRESHOLDS[k]
         /\ Returns(c) =>
              /\ response'[c].status = 200
              /\ DOMAIN new_thresholds[c] \cup KindSet \subseteq
                    DOMAIN response'[c].thresholds
         /\ response'[c].status = 200 =>
              response'[c].thresholds = ALERT_THRESHOLDS']_vars

\* C6 witness: a POST naming memory and disk has updated the dict, in which
\* cpu keeps the value an earlier POST gave it, and is about to return.
C6_Witness ==
    \E c \in Clients :
        /\ cpc[c] = "updated"
        /\ DOMAIN new_thresholds[c] = {"memory", "disk"}
        /\ ALERT_THRESHOLDS["cpu"] = Num(-1)
        /\ ALERT_THRESHOLDS["memory"] = new_thresholds[c]["memory"]

\* C7: the value of a key in ALERT_THRESHOLDS changes only in the update
\* step of a POST naming the key, and then to the value that POST carries;
\* no key is ever removed; and a read (a GET, or the return of a POST)
\* returns for every key the value the dict holds at that instant.
C7_PerKeyAtomic ==
    [][/\ DOMAIN ALERT_THRESHOLDS \subseteq DOMAIN ALERT_THRESHOLDS'
       /\ \A k \in DOMAIN ALERT_THRESHOLDS' :
             (k \notin DOMAIN ALERT_THRESHOLDS
                 \/ ALERT_THRESHOLDS'[k] # ALERT_THRESHOLDS[k]) =>
                \E c \in Clients :
                   /\ Updates(c)
                   /\ k \in DOMAIN new_thresholds'[c]
                   /\ ALERT_THRESHOLDS'[k] = new_thresholds'[c][k]
       /\ \A c \in Clients :
             (response'[c] # response[c] /\ response'[c].status = 200) =>
                \A k \in DOMAIN ALERT_THRESHOLDS :
                   /\ k \in DOMAIN response'[c].thresholds
                   /\ response'[c].thresholds[k] = ALERT_THRESHOLDS[k]]_vars

\* C7 witness: while the POST of one client is between its update and its
\* return, another client has read the dict and got the updated value.
C7_Witness ==
    \E c, d \in Clients :
        /\ c # d
        /\ cpc[c] = "updated"
        /\ "cpu" \in DOMAIN new_thresholds[c]
        /\ response[d].status = 200
        /\ response[d].thresholds["cpu"] = new_thresholds[c]["cpu"]

\* C8: check_alerts sleeps again and again and fetches again and again,
\* however its cycles end.
C8_PollerKeepsPolling == []<>(pc = "sleep") /\ []<>(pc = "fetch")

\* C8 witness: after a cycle that raised during evaluation and left the
\* store half built, and a sleep, the next fetch is under way.
C8_Witness ==
    /\ pc = "fetch"
    /\ ~complete
    /\ active_alerts # <<>>

\* C9: when a cycle ends in success and no POST updated the dict during
\* it, its alerts are those of the readings above the values the latest
\* POSTs sent, and each alert records that value as its threshold.
C9_UpdateReachesPoller ==
    [][(CycleEnds("success") /\ ~cfg_dirty) =>
          /\ \A i \in HostIndexes : \A j \in KindIndexes :
                HasAlert(active_alerts', i, j) <=>
                   /\ Comparable(Reading(i, j), posted[Kinds[j]])
                   /\ Reading(i, j).n > posted[Kinds[j]].n
          /\ \A n \in 1..Len(active_alerts') : \E j \in KindIndexes :
                /\ active_alerts'[n].type = AlertType[Kinds[j]]
                /\ active_alerts'[n].threshold = posted[Kinds[j]]]_vars

\* C9 witness: a POST set cpu to -1 before the cycle started, and the
\* cycle, about to end in success, holds a CPU alert for a reading of 80
\* with -1 recorded as its threshold.
C9_Witness ==
    /\ LoopDone
    /\ ~cfg_dirty
    /\ posted["cpu"] = Num(-1)
    /\ \E n \in 1..Len(active_alerts) :
          /\ active_alerts[n].type = "CPU"
          /\ active_alerts[n].value = Num(CpuDefault)
          /\ active_alerts[n].threshold = Num(-1)

\* C10 (the claim as stated): the threshold dict only ever maps its keys to
\* numbers, a POST carrying another value being rejected.
C10_ThresholdsStayNumeric ==
    \A k \in DOMAIN ALERT_THRESHOLDS : ALERT_THRESHOLDS[k].tag = "number"

\* A GET /api/latest returns.
LatestReturns == latest_get.state # "idle" /\ latest_get'.state = "idle"

C12_CycleReadsOneVersion ==
    \E T \in versions : \A rd \in reads : T[rd.kind] = rd.value

\* C13 (the claim as stated): every alert in active_alerts has a value
\* that is greater than the threshold the alert records.
C13_AlertExceedsOwnThreshold ==
    \A n \in 1..Len(active_alerts) :
        /\ Comparable(active_alerts[n].value, active_alerts[n].threshold)
        /\ active_alerts[n].value.n > active_alerts[n].threshold.n

\* C14 (the claim as stated): whenever check_alerts is in its fetch, the
\* lock is free.
C14_LockFreeWhileFetching == pc = "fetch" => alerts_lock = "free"

\* C14 (amended): whenever check_alerts is in its fetch, it does not hold
\* the lock: the lock is free or held by an api_alerts request, which is
\* at its return.
C14_PollerFetchesUnlocked ==
    pc = "fetch" =>
       /\ alerts_lock # "poller"
       /\ alerts_lock = "reader" => \E r \in Readers : rpc[r] = "locked"

\* C14 witness: a cycle has published alerts under the lock, the next
\* fetch is under way and an api_alerts request holds the lock during it.
C14_Witness ==
    /\ pc = "fetch"
    /\ complete
    /\ active_alerts # <<>>
    /\ alerts_lock = "reader"

\* C15: the lock, held by check_alerts or by an api_alerts request, is
\* always released in the end, also after a cycle whose evaluation raised,
\* and every api_alerts request that has arrived returns in the end.
C15_LockReleasedReadsReturn ==
    /\ (alerts_lock # "free") ~> (alerts_lock = "free")
    /\ \A r \in Readers : (rpc[r] = "waiting") ~> (rpc[r] = "idle")

\* C15 witness: the evaluation of a cycle has raised under the lock, and
\* of two requests that waited one now holds the lock while the other
\* still waits.
C15_Witness ==
    /\ outcome = "eval_error"
    /\ \E r, q \in Readers : rpc[r] = "locked" /\ rpc[q] = "waiting"

\* check_alerts is between the clear of a cycle and the end of its loop.
Publishing == pc \in {"clear", "next_host", "compare", "append"}

\* C16: check_alerts starts a cycle only out of its sleep, when the cycle
\* before has ended, as a success or abandoned, has left the with block
\* and has no entry of its snapshot left to evaluate; active_alerts is
\* changed only by the clear and the appends of the one cycle that is
\* publishing, which holds the lock from before its clear until its end.
C16_CyclesDoNotOverlap ==
    [][/\ (pc # "fetch" /\ pc' = "fetch") =>
             /\ pc = "sleep"
             /\ outcome # "running"
             /\ alerts_lock # "poller"
             /\ latest_metrics = NoBody /\ host_idx = 0 /\ kind_idx = 0
       /\ active_alerts' # active_alerts =>
             /\ pc \in {"clear", "append"}
             /\ alerts_lock = "poller"
       /\ Publishing <=> alerts_lock = "poller"
       /\ (pc = "clear" /\ pc' # "clear") => host_idx = 0]_vars

\* C16 witness: a cycle has published alerts and ended, and the next cycle
\* is rebuilding the list under the lock.
C16_Witness ==
    /\ pre_alerts # <<>>
    /\ pc = "append"
    /\ alerts_lock = "poller"

\* The alerts of one entry of the snapshot map under thresholds T: CPU,
\* then Memory, then Disk, each when its reading is above T's value.
AlertsOfHost(entry, T) ==
    (IF entry.metrics["cpu_usage"].n > T["cpu"].n
       THEN <<[hostname |-> entry.hostname, type |-> "CPU",
               value |-> entry.metrics["cpu_usage"], threshold |-> T["cpu"]]>>
       ELSE <<>>)
    \o (IF entry.metrics["memory_usage"].n > T["memory"].n
          THEN <<[hostname |-> entry.hostname, type |-> "Memory",
                  value |-> entry.metrics["memory_usage"], threshold |-> T["memory"]]>>
          ELSE <<>>)
    \o (IF entry.metrics["disk_usage"].n > T["disk"].n
          THEN <<[hostname |-> entry.hostname, type |-> "Disk",
                  value |-> entry.metrics["disk_usage"], threshold |-> T["disk"]]>>
          ELSE <<>>)

\* The alerts of a snapshot map, entry by entry in the map's order.
RECURSIVE AlertsOf(_, _)
AlertsOf(items, T) ==
    IF items = <<>> THEN <<>>
    ELSE AlertsOfHost(Head(items), T) \o AlertsOf(Tail(items), T)

TypeOrder == <<"CPU", "Memory", "Disk">>
HostPos(alert) == CHOOSE i \in HostIndexes : latest_metrics.items[i].hostname = alert.hostname
TypePos(alert) == CHOOSE j \in 1..Len(TypeOrder) : TypeOrder[j] = alert.type

C18_OneAlertPerHostAndType ==
    /\ \A m, n \in 1..Len(active_alerts) :
          (/\ active_alerts[m].hostname = active_alerts[n].hostname
           /\ active_alerts[m].type = active_alerts[n].type) => m = n
    /\ \A i \in 1..MaxHosts :
          Cardinality({n \in 1..Len(active_alerts) :
                          active_alerts[n].hostname = HostName(i)}) <= Len(Kinds)

\* C18 witness: a cycle was abandoned when its evaluation raised, and
\* left an alert in the list.
C18_Witness ==
    /\ outcome = "eval_error"
    /\ ~complete
    /\ active_alerts # <<>>

\* C19 (the claim as stated): the keys of the threshold dict are cpu,
\* memory and disk, no fewer and no more, whatever has been posted.
C19_ExactlyThreeKinds == DOMAIN ALERT_THRESHOLDS = KindSet

====
